---- MODULE Spec2Model ----
(***************************************************************************)
(* chainit: a fluent state builder.                                        *)
(*                                                                         *)
(*   chainitAsync (core/async.js)  the Queued Builder: every write is a    *)
(*       task appended to a promise chain (queue = queue.then(task)),      *)
(*       $value() is queue.then(() => obj).                                *)
(*   chainit (core/index.js)       the Immediate Builder: every write     *)
(*       runs runMiddleware and commits before it returns.                 *)
(*                                                                         *)
(* Spec      is the Queued Builder driven by a caller, the microtask       *)
(*           queue and the timers of suspended middleware.                 *)
(* SpecSync  is the Immediate Builder driven by a caller.                  *)
(***************************************************************************)
EXTENDS Integers, Sequences, FiniteSets, TLC

\* ------------------------------------------------------------------ bounds
MaxCalls == 3
MaxSyncWrites == 3

\* ------------------------------------------------------------- JS values
\* Field values are numbers; the special values are negative.
SKIP == -1
Undefined == -2
Null == -3
BuilderCallback == -4
PromiseValue == -5
FunctionArg == -6

Fields == {"a", "b"}
Args == {1, 2}

\* The property names the Immediate proxy answers as helpers, and every
\* property name a record of the model can hold.
HelperNames == {"tap", "pipe"}
Keys == Fields \cup HelperNames

EmptyRecord == [f \in Keys |-> Undefined]

NoErr == [by |-> 0, kind |-> "none"]

\* ----------------------------------------------------- middleware entries
\* A plain function: item.fn, item.only and item.except are undefined.
Fn(name, delay) ==
  [fn |-> name, wrapped |-> FALSE, delay |-> delay,
   hasOnly |-> FALSE, only |-> {}, hasExcept |-> FALSE, except |-> {}]

\* plugin(fn, {only, except}) returns the object {fn, only, except}.
plugin(name, hasOnly, only, hasExcept, except) ==
  [fn |-> name, wrapped |-> TRUE, delay |-> FALSE,
   hasOnly |-> hasOnly, only |-> only, hasExcept |-> hasExcept, except |-> except]

\* shouldRun letting a field named by only through whatever except says.
shouldRunOnlyWins(item, key) ==
  IF item.hasOnly /\ key \notin item.only THEN FALSE
  ELSE IF item.hasOnly THEN TRUE
  ELSE IF item.hasExcept /\ key \in item.except THEN FALSE
  ELSE TRUE

\* shouldRun(item, key): a plain function has neither only nor except.
shouldRun(item, key) ==
  IF item.hasOnly /\ key \notin item.only THEN FALSE
  ELSE IF item.hasExcept /\ key \in item.except THEN FALSE
  ELSE TRUE

\* The middleware functions used as inputs: what fn(key, value, ctx) does.
\*   keep      a validator that returns nothing
\*   double    a transformer
\*   inc       a transformer
\*   reserved  usernameCheck: cancels the reserved value of field "a"
\*   omit      omit(): always cancels
\*   required  a validator that throws on the value 2
\*   appender  writes field "b" on the builder's first handle, returns nothing
\*   nullify   a transformer that returns null
Outcome(name, key, v) ==
  CASE name = "keep" -> [t |-> "ret", v |-> Undefined]
    [] name = "double" -> [t |-> "ret", v |-> IF v > 0 THEN 2 * v ELSE v]
    [] name = "inc" -> [t |-> "ret", v |-> IF v > 0 THEN v + 1 ELSE v]
    [] name = "reserved" -> [t |-> "ret", v |-> IF key = "a" /\ v = 1 THEN SKIP ELSE v]
    [] name = "omit" -> [t |-> "ret", v |-> SKIP]
    [] name = "required" -> IF v = 2 THEN [t |-> "throw", v |-> Undefined]
                            ELSE [t |-> "ret", v |-> Undefined]
    [] name = "appender" -> [t |-> "ret", v |-> Undefined]
    [] name = "nullify" -> [t |-> "ret", v |-> Null]

NoProps == [f \in Fields |-> <<>>]

\* A call on the Immediate proxy: end is how it ended, ret what it returned
\* ("proxy", "value", or "none" when it failed), fnres the object the function
\* passed to pipe returned.
Call(op, key, arg, end, ret, fnres) ==
  [op |-> op, key |-> key, arg |-> arg, end |-> end, ret |-> ret, fnres |-> fnres]

NoCall == Call("none", "a", Undefined, "none", "none", 0)

\* ---------------------------------------------------------------- state
VARIABLES
  cfg,      \* the arguments of the constructor: the options and rootRef
  heap,     \* the record objects, by identity
  handles,  \* Queued: the obj variable of every proxy make() returned
  tasks,    \* Queued: the tasks appended to the chain, in append order
  vals,     \* Queued: the promises $value() returned
  micro,    \* Queued: the microtask queue
  timers,   \* Queued: tasks suspended in a middleware that awaits a timer
  calls,    \* Queued: log of the middleware invocations
  state,    \* Immediate: the live record
  trace,    \* Immediate: the middleware invocations of the last call
  last,     \* Immediate: the last call and how it ended
  nops      \* Immediate: number of calls made

avars == <<handles, tasks, vals, micro, timers, calls>>
svars == <<state, trace, last, nops>>
vars == <<cfg, heap, handles, tasks, vals, micro, timers, calls, state, trace, last, nops>>

World ==
  [heap |-> heap, handles |-> handles, tasks |-> tasks, vals |-> vals,
   micro |-> micro, timers |-> timers, calls |-> calls]

Install(w) ==
  /\ heap' = w.heap
  /\ handles' = w.handles
  /\ tasks' = w.tasks
  /\ vals' = w.vals
  /\ micro' = w.micro
  /\ timers' = w.timers
  /\ calls' = w.calls

\* const root = rootRef ?? target: the initial target is object 1.
root == IF cfg.rootRef \in {Undefined, Null} THEN 1 ELSE cfg.rootRef

\* ---------------------------------------------------- the promise chain
\* Promise 0 is Promise.resolve(); promise k > 0 is queue after task k.
PromiseState(w, p) == IF p = 0 THEN "fulfilled" ELSE w.tasks[p].st
PromiseErr(w, p) == IF p = 0 THEN NoErr ELSE w.tasks[p].err

\* queue: the promise of the task appended last.
queue(w) == Len(w.tasks)

Job(t, id) == [t |-> t, id |-> id]

\* queue.then(reaction): the reaction is queued at once when queue is settled.
Then(w, p, job) ==
  IF PromiseState(w, p) # "pending" THEN [w EXCEPT !.micro = Append(@, job)] ELSE w

Running(w) == {k \in 1..Len(w.tasks) : w.tasks[k].phase = "running"}

\* Setter that assigns the value to the record before it returns.
SetterEager(w, h, prop, arg, by) ==
  LET k == Len(w.tasks) + 1
      t == [handle |-> h, ret |-> Len(w.handles) + 1, prop |-> prop, arg |-> arg,
            by |-> by, parent |-> queue(w), phase |-> "queued", st |-> "pending",
            err |-> NoErr, val |-> Undefined, mi |-> 0, out |-> [t |-> "ret", v |-> Undefined]]
      w1 == [w EXCEPT !.tasks = Append(@, t),
                      !.handles = Append(@, w.handles[h]),
                      !.heap[w.handles[h]][prop] = arg]
  IN Then(w1, t.parent, Job("task", k))

\* Setter with the task chained on a fresh resolved promise instead of queue.
SetterUnchained(w, h, prop, arg, by) ==
  LET k == Len(w.tasks) + 1
      t == [handle |-> h, ret |-> Len(w.handles) + 1, prop |-> prop, arg |-> arg,
            by |-> by, parent |-> 0, phase |-> "queued", st |-> "pending",
            err |-> NoErr, val |-> Undefined, mi |-> 0, out |-> [t |-> "ret", v |-> Undefined]]
      w1 == [w EXCEPT !.tasks = Append(@, t),
                      !.handles = Append(@, w.handles[h])]
  IN [w1 EXCEPT !.micro = Append(@, Job("task", k))]

\* The setter of a handle: appends a task and returns make(obj).
Setter(w, h, prop, arg, by) ==
  LET k == Len(w.tasks) + 1
      t == [handle |-> h, ret |-> Len(w.handles) + 1, prop |-> prop, arg |-> arg,
            by |-> by, parent |-> queue(w), phase |-> "queued", st |-> "pending",
            err |-> NoErr, val |-> Undefined, mi |-> 0, out |-> [t |-> "ret", v |-> Undefined]]
      w1 == [w EXCEPT !.tasks = Append(@, t),
                      !.handles = Append(@, w.handles[h])]
  IN Then(w1, t.parent, Job("task", k))

\* $value() that does not wait for queue: Promise.resolve().then(() => obj).
ValueUnchained(w, h) ==
  LET v == [handle |-> h, pos |-> Len(w.tasks), parent |-> 0, st |-> "pending",
            err |-> NoErr, res |-> 0, snap |-> EmptyRecord,
            during |-> Running(w), notStarted |-> {}]
      w1 == [w EXCEPT !.vals = Append(@, v)]
  IN [w1 EXCEPT !.micro = Append(@, Job("value", Len(w1.vals)))]

\* $value(): queue.then(() => obj).
Value(w, h) ==
  LET v == [handle |-> h, pos |-> Len(w.tasks), parent |-> queue(w), st |-> "pending",
            err |-> NoErr, res |-> 0, snap |-> EmptyRecord,
            during |-> Running(w), notStarted |-> {}]
      w1 == [w EXCEPT !.vals = Append(@, v)]
  IN Then(w1, v.parent, Job("value", Len(w1.vals)))

\* The task's promise settles: its reactions are queued in registration order.
ValueChildren(w, k) ==
  LET S == {i \in 1..Len(w.vals) : w.vals[i].parent = k}
      RECURSIVE AsSeq(_, _)
      AsSeq(T, n) == IF n > Len(w.vals) THEN <<>>
                     ELSE IF n \in T THEN <<Job("value", n)>> \o AsSeq(T, n + 1)
                     ELSE AsSeq(T, n + 1)
  IN AsSeq(S, 1)

TaskChild(w, k) ==
  IF k < Len(w.tasks) /\ w.tasks[k + 1].parent = k THEN <<Job("task", k + 1)>> ELSE <<>>

\* Settle that loses the reaction of the next task.
SettleNoTask(w, k) ==
  LET st == IF w.tasks[k].phase = "committed" THEN "fulfilled" ELSE "rejected"
  IN [w EXCEPT !.tasks[k].st = st,
               !.micro = @ \o ValueChildren(w, k)]

\* Settle with the reactions queued in the wrong order: the next task first.
SettleTaskFirst(w, k) ==
  LET st == IF w.tasks[k].phase = "committed" THEN "fulfilled" ELSE "rejected"
  IN [w EXCEPT !.tasks[k].st = st,
               !.micro = @ \o TaskChild(w, k) \o ValueChildren(w, k)]

Settle(w, k) ==
  LET st == IF w.tasks[k].phase = "committed" THEN "fulfilled" ELSE "rejected"
  IN [w EXCEPT !.tasks[k].st = st,
               !.micro = @ \o ValueChildren(w, k) \o TaskChild(w, k)]

\* ------------------------------------------------------------- the task
Fail(w, k, kind) ==
  [w EXCEPT !.tasks[k].phase = "failed",
            !.tasks[k].err = [by |-> k, kind |-> kind],
            !.micro = Append(@, Job("settle", k))]

\* The commit leaving out a value marked by _().
CommitNoMarker(w, k) ==
  LET t == w.tasks[k]
      obj == w.handles[t.handle]
      w1 == IF t.val = BuilderCallback THEN w
            ELSE IF cfg.immutable
            THEN [w EXCEPT !.heap = Append(@, [w.heap[obj] EXCEPT ![t.prop] = t.val]),
                           !.handles[t.handle] = Len(w.heap) + 1]
            ELSE [w EXCEPT !.heap[obj][t.prop] = t.val]
  IN [w1 EXCEPT !.tasks[k].phase = "committed",
                !.micro = Append(@, Job("settle", k))]

\* The commit writing into a copy of the record whatever the mode.
CommitAlwaysCopy(w, k) ==
  LET t == w.tasks[k]
      obj == w.handles[t.handle]
      w1 == [w EXCEPT !.heap = Append(@, [w.heap[obj] EXCEPT ![t.prop] = t.val]),
                      !.handles[t.handle] = Len(w.heap) + 1]
  IN [w1 EXCEPT !.tasks[k].phase = "committed",
                !.micro = Append(@, Job("settle", k))]

\* The commit whose copy is taken from the initial target instead of obj.
CommitFromTarget(w, k) ==
  LET t == w.tasks[k]
      w1 == IF cfg.immutable
            THEN [w EXCEPT !.heap = Append(@, [w.heap[1] EXCEPT ![t.prop] = t.val]),
                           !.handles[t.handle] = Len(w.heap) + 1]
            ELSE [w EXCEPT !.heap[w.handles[t.handle]][t.prop] = t.val]
  IN [w1 EXCEPT !.tasks[k].phase = "committed",
                !.micro = Append(@, Job("settle", k))]

\* const next = immutable ? { ...obj } : obj; next[prop] = value; obj = next
Commit(w, k) ==
  LET t == w.tasks[k]
      obj == w.handles[t.handle]
      w1 == IF cfg.immutable
            THEN [w EXCEPT !.heap = Append(@, [w.heap[obj] EXCEPT ![t.prop] = t.val]),
                           !.handles[t.handle] = Len(w.heap) + 1]
            ELSE [w EXCEPT !.heap[obj][t.prop] = t.val]
  IN [w1 EXCEPT !.tasks[k].phase = "committed",
                !.micro = Append(@, Job("settle", k))]

\* const ctx = { key: prop, obj, root }, made when the task starts; obj cannot
\* be rebound between the start of the task and its own commit.
AsyncCtx(w, k) ==
  [key |-> w.tasks[k].prop, obj |-> w.handles[w.tasks[k].handle], root |-> root]

\* value = (await m(prop, value, ctx)) ?? value, up to the await.
Invoke(w, k) ==
  LET t == w.tasks[k]
      m == cfg.use[t.mi]
      out == Outcome(m.fn, t.prop, t.val)
      w1 == [w EXCEPT !.calls = Append(@, [task |-> k, idx |-> t.mi, key |-> t.prop,
                                           val |-> t.val, ctx |-> AsyncCtx(w, k)]),
                      !.tasks[k].out = out]
      w2 == IF m.fn = "appender" /\ Len(w1.tasks) + Len(w1.vals) < MaxCalls
            THEN Setter(w1, 1, "b", 2, k) ELSE w1
  IN IF m.wrapped THEN Fail(w, k, "TypeError")
     ELSE IF m.delay THEN [w2 EXCEPT !.timers = @ \cup {k}]
     ELSE IF out.t = "throw" THEN Fail(w2, k, "Error")
     ELSE [w2 EXCEPT !.micro = Append(@, Job("resume", k))]

\* for (const m of use) { ... } followed by the write.
Loop(w, k) ==
  IF w.tasks[k].mi > Len(cfg.use) THEN Commit(w, k) ELSE Invoke(w, k)

\* The await of the current middleware completes.
Resume(w, k) ==
  LET t == w.tasks[k]
      v == IF t.out.v \in {Undefined, Null} THEN t.val ELSE t.out.v
  IN IF t.out.t = "throw" THEN Fail(w, k, "Error")
     ELSE Loop([w EXCEPT !.tasks[k].val = v, !.tasks[k].mi = @ + 1], k)

\* The reaction of a task that, bypassed by a rejection, rejects with a fault
\* of its own.
taskOwnFault(w, k) ==
  LET t == w.tasks[k]
  IN IF PromiseState(w, t.parent) = "fulfilled"
     THEN Loop([w EXCEPT !.tasks[k].phase = "running",
                         !.tasks[k].val = t.arg,
                         !.tasks[k].mi = 1], k)
     ELSE Settle([w EXCEPT !.tasks[k].phase = "skipped",
                           !.tasks[k].err = [by |-> k, kind |-> "Error"]], k)

\* The reaction queue.then(task, task): runs the task whatever queue's outcome.
taskAlways(w, k) ==
  Loop([w EXCEPT !.tasks[k].phase = "running",
                 !.tasks[k].val = w.tasks[k].arg,
                 !.tasks[k].mi = 1], k)

\* The reaction queue.then(task): runs the task when queue was fulfilled,
\* passes the rejection on otherwise.
task(w, k) ==
  LET t == w.tasks[k]
  IN IF PromiseState(w, t.parent) = "fulfilled"
     THEN Loop([w EXCEPT !.tasks[k].phase = "running",
                         !.tasks[k].val = t.arg,
                         !.tasks[k].mi = 1], k)
     ELSE Settle([w EXCEPT !.tasks[k].phase = "skipped",
                           !.tasks[k].err = PromiseErr(w, t.parent)], k)

\* The reaction queue.then(() => obj, () => obj): swallows the rejection.
ValueReactionAlways(w, i) ==
  [w EXCEPT !.vals[i].st = "fulfilled",
            !.vals[i].res = w.handles[w.vals[i].handle],
            !.vals[i].snap = w.heap[w.handles[w.vals[i].handle]],
            !.vals[i].notStarted =
                {k \in 1..Len(w.tasks) : w.tasks[k].phase = "queued"}]

\* The reaction queue.then(() => obj).
ValueReaction(w, i) ==
  LET v == w.vals[i]
  IN IF PromiseState(w, v.parent) = "fulfilled"
     THEN [w EXCEPT !.vals[i].st = "fulfilled",
                    !.vals[i].res = w.handles[v.handle],
                    !.vals[i].snap = w.heap[w.handles[v.handle]],
                    !.vals[i].notStarted =
                        {k \in 1..Len(w.tasks) : w.tasks[k].phase = "queued"}]
     ELSE [w EXCEPT !.vals[i].st = "rejected",
                    !.vals[i].err = PromiseErr(w, v.parent)]

RunJob(w, job) ==
  CASE job.t = "task" -> task(w, job.id)
    [] job.t = "value" -> ValueReaction(w, job.id)
    [] job.t = "resume" -> Resume(w, job.id)
    [] job.t = "settle" -> Settle(w, job.id)

\* -------------------------------------------------------- configurations
\* The options the Queued Builder is constructed with.
PropsA == [NoProps EXCEPT !["a"] = <<Fn("double", FALSE)>>]

\* The builder is constructed with options and no rootRef.
Options(immutable, use, props) ==
  [immutable |-> immutable, use |-> use, props |-> props, rootRef |-> Undefined]

AsyncConfigs ==
  { Options(FALSE, <<>>, NoProps),
    Options(TRUE, <<>>, NoProps),
    Options(FALSE, <<Fn("reserved", TRUE)>>, NoProps),
    Options(TRUE, <<Fn("reserved", TRUE)>>, NoProps),
    Options(FALSE, <<Fn("required", FALSE), Fn("double", TRUE)>>, NoProps),
    Options(FALSE, <<Fn("keep", TRUE), Fn("appender", FALSE)>>, NoProps),
    Options(FALSE, <<plugin("double", TRUE, {"a"}, FALSE, {}), Fn("inc", FALSE)>>, NoProps),
    Options(FALSE, <<Fn("inc", FALSE)>>, PropsA) }

\* ---------------------------------------------------------------- Queued
\* chainitAsync(target = {}, options): queue = Promise.resolve(); make(target)
Init ==
  /\ cfg \in AsyncConfigs
  /\ heap = <<EmptyRecord>>
  /\ handles = <<1>>
  /\ tasks = <<>>
  /\ vals = <<>>
  /\ micro = <<>>
  /\ timers = {}
  /\ calls = <<>>
  /\ state = 1
  /\ trace = <<>>
  /\ last = NoCall
  /\ nops = 0

\* The handles the caller uses: the first one (ch.a(1); ch.b(2)) or the one
\* its last write returned (ch.a(1).b(2)).
CallerTasks == {k \in 1..Len(tasks) : tasks[k].by = 0}
LastCallerTask == CHOOSE k \in CallerTasks : \A j \in CallerTasks : j <= k
CallerHandles == {1} \cup (IF CallerTasks = {} THEN {} ELSE {tasks[LastCallerTask].ret})

\* The caller writes field prop on handle h.
CallWrite ==
  /\ Len(tasks) + Len(vals) < MaxCalls
  /\ \E h \in CallerHandles, prop \in Fields, arg \in Args :
       Install(Setter(World, h, prop, arg, 0))
  /\ UNCHANGED <<cfg, svars>>

\* The caller calls $value() on handle h.
CallValue ==
  /\ Len(tasks) + Len(vals) < MaxCalls
  /\ \E h \in CallerHandles : Install(Value(World, h))
  /\ UNCHANGED <<cfg, svars>>

\* The event loop runs the next microtask.
Microtask ==
  /\ micro # <<>>
  /\ Install(RunJob([World EXCEPT !.micro = Tail(@)], Head(micro)))
  /\ UNCHANGED <<cfg, svars>>

\* A timer fires (only with an empty microtask queue): the suspended
\* middleware continues and its promise settles.
TimerFire ==
  /\ micro = <<>>
  /\ \E k \in timers :
       Install([World EXCEPT !.timers = @ \ {k},
                             !.micro = <<Job("resume", k)>>])
  /\ UNCHANGED <<cfg, svars>>

Next == CallWrite \/ CallValue \/ Microtask \/ TimerFire

Spec == Init /\ [][Next]_vars

\* The configuration progress is checked with: a validator that raises a
\* fault for one of the written values, followed by a suspending transformer.
LiveConfigs ==
  { Options(FALSE, <<Fn("required", FALSE), Fn("double", TRUE)>>, NoProps) }

InitLive == Init /\ cfg \in LiveConfigs

\* The event loop runs every queued reaction, and every timer a suspended
\* middleware waits for fires.
FairSpec == InitLive /\ [][Next]_vars /\ WF_vars(Microtask) /\ WF_vars(TimerFire)

\* Options and written values of the callers that pass a callback wrapped by
\* _() to a queued write: ch.user(_((u) => u.name("Anna"))).
NestedConfigs ==
  { Options(FALSE, <<>>, NoProps),
    Options(TRUE, <<>>, NoProps),
    Options(FALSE, <<Fn("keep", TRUE)>>, NoProps) }

NestedArgs == {1, BuilderCallback}

InitNested ==
  /\ cfg \in NestedConfigs
  /\ heap = <<EmptyRecord>>
  /\ handles = <<1>>
  /\ tasks = <<>>
  /\ vals = <<>>
  /\ micro = <<>>
  /\ timers = {}
  /\ calls = <<>>
  /\ state = 1
  /\ trace = <<>>
  /\ last = NoCall
  /\ nops = 0

\* The caller writes field prop on handle h, with a plain value or with a
\* callback wrapped by _().
CallWriteNested ==
  /\ Len(tasks) + Len(vals) < MaxCalls
  /\ \E h \in CallerHandles, prop \in Fields, arg \in NestedArgs :
       Install(Setter(World, h, prop, arg, 0))
  /\ UNCHANGED <<cfg, svars>>

NextNested == CallWriteNested \/ CallValue \/ Microtask \/ TimerFire

SpecNested == InitNested /\ [][NextNested]_vars

\* The caller calls tap(fn) or pipe(fn) on handle h of the Queued Builder:
\* the get trap has no branch for these names, the call is the setter of the
\* property tap or pipe with the function as the value.
CallHelper ==
  /\ Len(tasks) + Len(vals) < MaxCalls
  /\ \E h \in CallerHandles, name \in HelperNames :
       Install(Setter(World, h, name, FunctionArg, 0))
  /\ UNCHANGED <<cfg, svars>>

NextHelpers == CallHelper \/ CallValue \/ Microtask \/ TimerFire

SpecHelpers == InitNested /\ [][NextHelpers]_vars

\* The getter answering with the value of the last write of prop that has not
\* run yet, when there is one.
GetterPending(w, h, prop) ==
  LET P == {k \in 1..Len(w.tasks) : w.tasks[k].prop = prop /\ w.tasks[k].phase = "queued"}
  IN IF P = {} THEN w.heap[w.handles[h]][prop]
     ELSE w.tasks[CHOOSE k \in P : \A j \in P : j <= k].arg

\* The getter of a handle, called with no argument: obj[prop].
Getter(w, h, prop) == w.heap[w.handles[h]][prop]

\* The caller writes field prop on handle h and, in the same turn, reads the
\* field on that handle or on the handle the write returned:
\* ch.a(1); ch.a()  or  ch.a(1).a()
CallWriteRead ==
  /\ Len(tasks) + Len(vals) < MaxCalls
  /\ \E h \in CallerHandles, prop \in Fields, arg \in Args, onReturned \in BOOLEAN :
       LET w1 == Setter(World, h, prop, arg, 0)
           rh == IF onReturned THEN Len(w1.handles) ELSE h
       IN /\ Install(w1)
          /\ last' = Call("read", prop, Getter(w1, rh, prop), "returned", "value", rh)
  /\ UNCHANGED <<cfg, state, trace, nops>>

NextRead == CallWriteRead \/ CallValue \/ Microtask \/ TimerFire

SpecRead == InitNested /\ [][NextRead]_vars

\* The context whose root field is the current record.
CtxRootIsState(hp, st, prop) == [key |-> prop, obj |-> st, root |-> st, rec |-> hp[st]]

\* const ctx = { key: prop, obj: state, root }: obj and root are references;
\* rec is the record obj shows when the context is made.
Ctx(hp, st, prop) == [key |-> prop, obj |-> st, root |-> root, rec |-> hp[st]]

\* What the function passed to tap gets in place of a context: nothing.
NoCtx == [key |-> "a", obj |-> 0, root |-> 0, rec |-> EmptyRecord]

\* runList handing every entry the value the write was called with.
RunListNoFold(list, name, key, value, ctx) ==
  LET RECURSIVE Go(_, _, _)
      Go(i, v, tr) ==
        IF i > Len(list) THEN [st |-> "ok", v |-> v, tr |-> tr]
        ELSE LET item == list[i]
                 out == Outcome(item.fn, key, value)
                 result == IF item.delay THEN PromiseValue ELSE out.v
                 tr1 == Append(tr, [list |-> name, idx |-> i, key |-> key, val |-> value,
                                    out |-> IF ~item.delay /\ out.t = "throw"
                                            THEN Undefined ELSE result,
                                    threw |-> ~item.delay /\ out.t = "throw",
                                    ctx |-> ctx])
             IN IF ~shouldRun(item, key) THEN Go(i + 1, v, tr)
                ELSE IF ~item.delay /\ out.t = "throw"
                     THEN [st |-> "throw", v |-> v, tr |-> tr1]
                ELSE IF result = SKIP THEN [st |-> "ok", v |-> SKIP, tr |-> tr1]
                ELSE IF result # Undefined THEN Go(i + 1, result, tr1)
                ELSE Go(i + 1, v, tr1)
  IN Go(1, value, <<>>)

\* ------------------------------------------------------------- Immediate
\* runList(list, key, value, ctx): the fold over one pipeline.  The result
\* carries the invocations made: st is "throw" when an entry raised a fault.
RunList(list, name, key, value, ctx) ==
  LET RECURSIVE Go(_, _, _)
      Go(i, v, tr) ==
        IF i > Len(list) THEN [st |-> "ok", v |-> v, tr |-> tr]
        ELSE LET item == list[i]
                 out == Outcome(item.fn, key, v)
                 result == IF item.delay THEN PromiseValue ELSE out.v
                 tr1 == Append(tr, [list |-> name, idx |-> i, key |-> key, val |-> v,
                                    out |-> IF ~item.delay /\ out.t = "throw"
                                            THEN Undefined ELSE result,
                                    threw |-> ~item.delay /\ out.t = "throw",
                                    ctx |-> ctx])
             IN IF ~shouldRun(item, key) THEN Go(i + 1, v, tr)
                ELSE IF ~item.delay /\ out.t = "throw"
                     THEN [st |-> "throw", v |-> v, tr |-> tr1]
                ELSE IF result = SKIP THEN [st |-> "ok", v |-> SKIP, tr |-> tr1]
                ELSE IF result # Undefined THEN Go(i + 1, result, tr1)
                ELSE Go(i + 1, v, tr1)
  IN Go(1, value, <<>>)

\* runMiddleware without the test of the global pass for SKIP.
RunMiddlewareNoCancelTest(key, value, ctx) ==
  LET g == RunList(cfg.use, "use", key, value, ctx)
      p == RunList(cfg.props[key], "props", key, g.v, ctx)
  IN IF g.st = "throw" THEN g
     ELSE [p EXCEPT !.tr = g.tr \o p.tr]

\* runMiddleware(key, value, ctx): global middleware first, then props[key].
RunMiddleware(key, value, ctx) ==
  LET g == RunList(cfg.use, "use", key, value, ctx)
      p == RunList(cfg.props[key], "props", key, g.v, ctx)
  IN IF g.st = "throw" \/ g.v = SKIP THEN g
     ELSE [p EXCEPT !.tr = g.tr \o p.tr]

SyncUseLists ==
  { <<>>,
    <<Fn("reserved", FALSE), Fn("inc", FALSE)>>,
    <<Fn("required", FALSE), Fn("double", FALSE)>>,
    <<plugin("double", TRUE, {"a"}, FALSE, {}), Fn("inc", FALSE)>>,
    <<plugin("omit", TRUE, {"a", "b"}, TRUE, {"a"}), Fn("keep", FALSE)>>,
    <<Fn("nullify", FALSE), Fn("keep", FALSE)>>,
    <<Fn("double", TRUE)>> }

SyncPropsMaps ==
  { NoProps,
    [NoProps EXCEPT !["a"] = <<Fn("double", FALSE)>>],
    [NoProps EXCEPT !["a"] = <<Fn("omit", FALSE), Fn("inc", FALSE)>>] }

SyncConfigs ==
  [immutable : BOOLEAN, use : SyncUseLists, props : SyncPropsMaps, rootRef : {Undefined}]

SyncArgs == Args \cup {BuilderCallback}

\* chainit(target = {}, options): state = target; proxy = make()
InitSync ==
  /\ cfg \in SyncConfigs
  /\ heap = <<EmptyRecord>>
  /\ handles = <<1>>
  /\ tasks = <<>>
  /\ vals = <<>>
  /\ micro = <<>>
  /\ timers = {}
  /\ calls = <<>>
  /\ state = 1
  /\ trace = <<>>
  /\ last = NoCall
  /\ nops = 0

\* clone(obj): a new object with the same top-level fields.
clone(hp, o) == [heap |-> Append(hp, hp[o]), obj |-> Len(hp) + 1]

\* The write without the copy: next is state itself also in immutable mode.
StoreInPlace(hp, st, prop, v) ==
  [heap |-> [hp EXCEPT ![st][prop] = v], state |-> st]

\* The write with a copy made in every mode.
StoreCopy(hp, st, prop, v) ==
  LET c == clone(hp, st)
  IN [heap |-> [c.heap EXCEPT ![c.obj][prop] = v], state |-> c.obj]

\* const next = immutable ? clone(state) : state; next[prop] = value; state = next
Store(hp, st, prop, v) ==
  LET c == IF cfg.immutable THEN clone(hp, st) ELSE [heap |-> hp, obj |-> st]
  IN [heap |-> [c.heap EXCEPT ![c.obj][prop] = v], state |-> c.obj]

\* The setter making the context from the record with the field already set.
SyncSetterLateCtx(prop, arg) ==
  LET w0 == Store(heap, state, prop, arg)
      r == RunMiddleware(prop, arg, Ctx(w0.heap, w0.state, prop))
  IN IF arg = BuilderCallback
     THEN [end |-> "ReferenceError", tr |-> <<>>, heap |-> heap, state |-> state]
     ELSE IF r.st = "throw"
     THEN [end |-> "throw", tr |-> r.tr, heap |-> heap, state |-> state]
     ELSE IF r.v = SKIP
     THEN [end |-> "cancelled", tr |-> r.tr, heap |-> heap, state |-> state]
     ELSE LET w == Store(heap, state, prop, r.v)
          IN [end |-> "committed", tr |-> r.tr, heap |-> w.heap, state |-> w.state]

\* The setter installing a copy of the record when the write is cancelled.
SyncSetterCancelCopies(prop, arg) ==
  LET r == RunMiddleware(prop, arg, Ctx(heap, state, prop))
      c == IF cfg.immutable THEN clone(heap, state) ELSE [heap |-> heap, obj |-> state]
  IN IF arg = BuilderCallback
     THEN [end |-> "ReferenceError", tr |-> <<>>, heap |-> heap, state |-> state]
     ELSE IF r.st = "throw"
     THEN [end |-> "throw", tr |-> r.tr, heap |-> heap, state |-> state]
     ELSE IF r.v = SKIP
     THEN [end |-> "cancelled", tr |-> r.tr, heap |-> c.heap, state |-> c.obj]
     ELSE LET w == Store(heap, state, prop, r.v)
          IN [end |-> "committed", tr |-> r.tr, heap |-> w.heap, state |-> w.state]

\* The setter with the write made before the middleware runs.
SyncSetterWriteFirst(prop, arg) ==
  LET r == RunMiddleware(prop, arg, Ctx(heap, state, prop))
      w == Store(heap, state, prop, arg)
  IN IF arg = BuilderCallback
     THEN [end |-> "ReferenceError", tr |-> <<>>, heap |-> heap, state |-> state]
     ELSE IF r.st = "throw"
     THEN [end |-> "throw", tr |-> r.tr, heap |-> w.heap, state |-> w.state]
     ELSE IF r.v = SKIP
     THEN [end |-> "cancelled", tr |-> r.tr, heap |-> w.heap, state |-> w.state]
     ELSE LET x == Store(heap, state, prop, r.v)
          IN [end |-> "committed", tr |-> r.tr, heap |-> x.heap, state |-> x.state]

\* The setter without the test of the pipeline's result for SKIP.
SyncSetterNoCancel(prop, arg) ==
  LET r == RunMiddleware(prop, arg, Ctx(heap, state, prop))
  IN IF arg = BuilderCallback
     THEN [end |-> "ReferenceError", tr |-> <<>>, heap |-> heap, state |-> state]
     ELSE IF r.st = "throw"
     THEN [end |-> "throw", tr |-> r.tr, heap |-> heap, state |-> state]
     ELSE LET w == Store(heap, state, prop, r.v)
          IN [end |-> "committed", tr |-> r.tr, heap |-> w.heap, state |-> w.state]

\* The setter of the proxy, called with one argument.  A value marked by _()
\* makes it call chainer(childTarget, options, root): no binding of that name
\* exists, the call raises a ReferenceError before any middleware runs.
SyncSetter(prop, arg) ==
  LET r == RunMiddleware(prop, arg, Ctx(heap, state, prop))
  IN IF arg = BuilderCallback
     THEN [end |-> "ReferenceError", tr |-> <<>>, heap |-> heap, state |-> state]
     ELSE IF r.st = "throw"
     THEN [end |-> "throw", tr |-> r.tr, heap |-> heap, state |-> state]
     ELSE IF r.v = SKIP
     THEN [end |-> "cancelled", tr |-> r.tr, heap |-> heap, state |-> state]
     ELSE LET w == Store(heap, state, prop, r.v)
          IN [end |-> "committed", tr |-> r.tr, heap |-> w.heap, state |-> w.state]

\* proxy.prop(arg): the setter.
SyncWrite ==
  /\ nops < MaxSyncWrites
  /\ \E prop \in Fields, arg \in SyncArgs :
       LET r == SyncSetter(prop, arg)
       IN /\ last' = Call("write", prop, arg, r.end,
                          IF r.end \in {"committed", "cancelled"} THEN "proxy" ELSE "none", 0)
          /\ trace' = r.tr
          /\ heap' = r.heap
          /\ state' = r.state
  /\ nops' = nops + 1
  /\ UNCHANGED <<cfg, avars>>

\* The getter reading the initial target instead of state.
SyncGetterTarget(prop) == heap[1][prop]

\* The getter of the proxy, called with no argument: state[prop].
SyncGetter(prop) == heap[state][prop]

\* proxy.prop(): the getter.
SyncRead ==
  /\ nops < MaxSyncWrites
  /\ \E prop \in Fields :
       last' = Call("read", prop, SyncGetter(prop), "returned", "value", 0)
  /\ trace' = <<>>
  /\ nops' = nops + 1
  /\ UNCHANGED <<cfg, heap, state, avars>>

\* The functions passed to pipe: "same" returns the record it was given,
\* "derived" returns a new object, the record with field "b" set.
PipeFns == {"same", "derived"}

PipeFn(fn, hp, o) ==
  IF fn = "same" THEN [heap |-> hp, obj |-> o]
  ELSE [heap |-> Append(hp, [hp[o] EXCEPT !["b"] = 1]), obj |-> Len(hp) + 1]

\* pipe without the copy of immutable mode.
SyncPipeToNoClone(fn) ==
  LET n == PipeFn(fn, heap, state)
  IN [heap |-> n.heap, state |-> n.obj, fnres |-> n.obj]

\* const next = fn(state); state = immutable ? clone(next) : next
SyncPipeTo(fn) ==
  LET n == PipeFn(fn, heap, state)
      c == IF cfg.immutable THEN clone(n.heap, n.obj) ELSE n
  IN [heap |-> c.heap, state |-> c.obj, fnres |-> n.obj]

\* proxy.pipe(fn)
SyncPipe ==
  /\ nops < MaxSyncWrites
  /\ \E fn \in PipeFns :
       LET r == SyncPipeTo(fn)
       IN /\ last' = Call("pipe", "a", Undefined, "returned", "proxy", r.fnres)
          /\ heap' = r.heap
          /\ state' = r.state
  /\ trace' = <<>>
  /\ nops' = nops + 1
  /\ UNCHANGED <<cfg, avars>>

\* tap installing a copy of the record it showed to fn.
SyncTapToCopy ==
  LET c == clone(heap, state)
  IN [heap |-> c.heap, state |-> c.obj,
      tr |-> <<[list |-> "tap", idx |-> 1, key |-> "a", val |-> state,
                out |-> Undefined, threw |-> FALSE, ctx |-> NoCtx]>>]

\* fn(state); return proxy.  The function passed to tap looks at the record
\* (.tap(v => console.log(v))); its one invocation is logged with the object
\* it was given as val.
SyncTapTo ==
  [heap |-> heap, state |-> state,
   tr |-> <<[list |-> "tap", idx |-> 1, key |-> "a", val |-> state,
             out |-> Undefined, threw |-> FALSE, ctx |-> NoCtx]>>]

\* proxy.tap(fn)
SyncTap ==
  /\ nops < MaxSyncWrites
  /\ LET r == SyncTapTo
     IN /\ last' = Call("tap", "a", Undefined, "returned", "proxy", 0)
        /\ heap' = r.heap
        /\ state' = r.state
        /\ trace' = r.tr
  /\ nops' = nops + 1
  /\ UNCHANGED <<cfg, avars>>

\* The entries the filter is exercised with: a plain function, and the object
\* plugin(fn, options) returns for every choice of only and except over the
\* fields, an empty list included.
FilterItems ==
  {Fn("inc", FALSE)}
    \cup {plugin("inc", TRUE, o, TRUE, e) : o \in SUBSET Fields, e \in SUBSET Fields}
    \cup {plugin("inc", TRUE, o, FALSE, {}) : o \in SUBSET Fields}
    \cup {plugin("inc", FALSE, {}, TRUE, e) : e \in SUBSET Fields}
    \cup {plugin("inc", FALSE, {}, FALSE, {})}

FilterConfigs == {Options(FALSE, <<item>>, NoProps) : item \in FilterItems}

\* chainit({}, { use: [item] })
InitFilter ==
  /\ cfg \in FilterConfigs
  /\ heap = <<EmptyRecord>>
  /\ handles = <<1>>
  /\ tasks = <<>>
  /\ vals = <<>>
  /\ micro = <<>>
  /\ timers = {}
  /\ calls = <<>>
  /\ state = 1
  /\ trace = <<>>
  /\ last = NoCall
  /\ nops = 0

NextSync == SyncWrite \/ SyncRead \/ SyncPipe \/ SyncTap

SpecSync == InitSync /\ [][NextSync]_vars

SpecFilter == InitFilter /\ [][NextSync]_vars

\* The values of the callers that pass the exported SKIP symbol itself to a
\* write: proxy.a(SKIP).
SentinelArgs == Args \cup {SKIP}

\* proxy.prop(arg), arg possibly the SKIP symbol.
SyncWriteSentinel ==
  /\ nops < MaxSyncWrites
  /\ \E prop \in Fields, arg \in SentinelArgs :
       LET r == SyncSetter(prop, arg)
       IN /\ last' = Call("write", prop, arg, r.end,
                          IF r.end \in {"committed", "cancelled"} THEN "proxy" ELSE "none", 0)
          /\ trace' = r.tr
          /\ heap' = r.heap
          /\ state' = r.state
  /\ nops' = nops + 1
  /\ UNCHANGED <<cfg, avars>>

NextSentinel == SyncWriteSentinel \/ SyncRead

SpecSentinel == InitSync /\ [][NextSentinel]_vars

\* The two engines side by side: chainit(t1, options) and
\* chainitAsync(t2, options) built over two empty targets with the same
\* options, global plain functions that neither cancel nor raise a fault nor
\* suspend.  Object 1 is the target of the Immediate Builder, object 2 the
\* target of the Queued Builder.
EquivConfigs ==
  { Options(FALSE, <<>>, NoProps),
    Options(FALSE, <<Fn("keep", FALSE)>>, NoProps),
    Options(FALSE, <<Fn("double", FALSE), Fn("inc", FALSE)>>, NoProps),
    Options(FALSE, <<Fn("nullify", FALSE), Fn("keep", FALSE)>>, NoProps),
    Options(FALSE, <<Fn("inc", FALSE), Fn("nullify", FALSE)>>, NoProps) }

InitEquiv ==
  /\ cfg \in EquivConfigs
  /\ heap = <<EmptyRecord, EmptyRecord>>
  /\ handles = <<2>>
  /\ tasks = <<>>
  /\ vals = <<>>
  /\ micro = <<>>
  /\ timers = {}
  /\ calls = <<>>
  /\ state = 1
  /\ trace = <<>>
  /\ last = NoCall
  /\ nops = 0

\* The caller makes the same write on both builders, the queued one on the
\* builder's first handle: p.prop(arg); ch.prop(arg)
CallWriteBoth ==
  /\ nops < MaxSyncWrites
  /\ Len(tasks) + Len(vals) < MaxCalls
  /\ \E prop \in Fields, arg \in Args :
       LET r == SyncSetter(prop, arg)
       IN /\ last' = Call("write", prop, arg, r.end,
                          IF r.end \in {"committed", "cancelled"} THEN "proxy" ELSE "none", 0)
          /\ trace' = r.tr
          /\ state' = r.state
          /\ Install(Setter([World EXCEPT !.heap = r.heap], 1, prop, arg, 0))
  /\ nops' = nops + 1
  /\ UNCHANGED cfg

NextEquiv == CallWriteBoth \/ CallValue \/ Microtask

SpecEquiv == InitEquiv /\ [][NextEquiv]_vars

\* The programs that pass a rootRef: chainit(target, options, rootRef) and
\* chainitAsync(target, options, rootRef), with rootRef left out, null, or an
\* object of its own (object 2).  builder names the constructor called.
RootRefs == {Undefined, Null, 2}

RootConfigs ==
  { [immutable |-> i, use |-> <<Fn("inc", FALSE)>>, props |-> NoProps,
     rootRef |-> r, builder |-> b] :
      i \in BOOLEAN, r \in RootRefs, b \in {"chainit", "chainitAsync"} }

InitRoot ==
  /\ cfg \in RootConfigs
  /\ heap = IF cfg.rootRef = 2 THEN <<EmptyRecord, EmptyRecord>> ELSE <<EmptyRecord>>
  /\ handles = <<1>>
  /\ tasks = <<>>
  /\ vals = <<>>
  /\ micro = <<>>
  /\ timers = {}
  /\ calls = <<>>
  /\ state = 1
  /\ trace = <<>>
  /\ last = NoCall
  /\ nops = 0

\* if (prop === "$root") return root, in the get trap of the Immediate proxy.
SyncRootGetter == root

\* proxy.$root
SyncRootRead ==
  /\ nops < MaxSyncWrites
  /\ last' = Call("root", "a", SyncRootGetter, "returned", "value", 0)
  /\ trace' = <<>>
  /\ nops' = nops + 1
  /\ UNCHANGED <<cfg, heap, state, avars>>

\* if (prop === "$root") return root, in the get trap of a Queued handle.
RootGetter(w, h) == root

\* ch.$root on a handle of the Queued Builder.
CallRoot ==
  /\ \E h \in CallerHandles :
       last' = Call("root", "a", RootGetter(World, h), "returned", "value", 0)
  /\ UNCHANGED <<cfg, heap, avars, state, trace, nops>>

NextRoot ==
  \/ cfg.builder = "chainit" /\ (SyncWrite \/ SyncPipe \/ SyncRootRead)
  \/ cfg.builder = "chainitAsync"
       /\ (CallWrite \/ Microtask \/ CallRoot)

SpecRoot == InitRoot /\ [][NextRoot]_vars

\* ================================================================ claims
TaskIds == 1..Len(tasks)
ValueIds == 1..Len(vals)
Started(k) == tasks[k].phase \in {"running", "committed", "failed"}
Finished(k) == tasks[k].phase \in {"committed", "failed", "skipped"}
CallsOf(k) == {i \in 1..Len(calls) : calls[i].task = k}
SomeDelay == \E i \in 1..Len(cfg.use) : cfg.use[i].delay

\* C1: at most one task body is in progress at any time, a task starts only
\* after every task appended before it has finished, and the middleware
\* invocations of different tasks are made in append order, never interleaved.
C1_Ordering ==
  /\ Cardinality(Running(World)) <= 1
  /\ \A i, j \in TaskIds : i < j /\ Started(j) => Finished(i)
  /\ \A p, q \in 1..Len(calls) : p < q => calls[p].task <= calls[q].task

\* Task 2 was appended while task 1 was suspended, and has run since.
C1_Witness ==
  /\ SomeDelay
  /\ Len(tasks) = 2
  /\ CallsOf(1) # {} /\ CallsOf(2) # {}
  /\ tasks[2].parent = 1

\* The handles and the $value() call of one textual chain ch.f1(x1)...fN(xN).$value():
\* every write is issued by the caller on the handle the previous write returned.
IsTextualChain(v) ==
  /\ v.pos >= 1
  /\ \A k \in 1..v.pos :
       /\ tasks[k].by = 0
       /\ tasks[k].handle = IF k = 1 THEN 1 ELSE tasks[k - 1].ret
  /\ v.handle = tasks[v.pos].ret

\* The post-middleware value of the last of the first n writes that is to field f.
LastWrite(f, n) ==
  LET W == {k \in 1..n : tasks[k].prop = f}
  IN IF W = {} THEN Undefined
     ELSE tasks[CHOOSE k \in W : \A j \in W : j <= k].val

\* C2: $value() on the last handle of a textual chain of N writes resolves to a
\* record holding, for every field, the value of the last write to it.
C2_DrainResult ==
  \A i \in ValueIds :
    vals[i].st = "fulfilled" /\ IsTextualChain(vals[i])
      => \A f \in Fields : vals[i].snap[f] = LastWrite(f, vals[i].pos)

\* C3 as stated: a failure never causes a later task to be skipped.
C3_Original ==
  \A k \in TaskIds : tasks[k].phase # "skipped"

\* C3 amended: once task i has failed, every task appended after it (queued
\* before the failure or appended later) is skipped: none of its middleware is
\* invoked and it never commits.
C3_FailureSkipsLater ==
  \A i, j \in TaskIds :
    i < j /\ tasks[i].phase = "failed"
      => /\ tasks[j].phase \in {"queued", "skipped"}
         /\ CallsOf(j) = {}
         /\ tasks[j].st # "fulfilled"

C3_Witness ==
  \E i, j \in TaskIds :
    i < j /\ tasks[i].phase = "failed" /\ tasks[j].phase = "skipped"

\* C4: a task whose middleware raised a fault commits nothing (the step in
\* which it fails leaves every record and every handle's binding as it was,
\* and it stays failed), and a $value() call made after the task was appended
\* is never resolved: it is rejected with that task's fault.
C4_RejectedValue ==
  \A i \in ValueIds : \A k \in TaskIds :
    k <= vals[i].pos /\ tasks[k].phase = "failed"
      => /\ vals[i].st # "fulfilled"
         /\ vals[i].st = "rejected" => vals[i].err = tasks[k].err

C4_FailStep ==
  \A k \in TaskIds :
    /\ tasks[k].phase = "failed" => tasks'[k].phase = "failed"
    /\ tasks[k].phase # "failed" /\ tasks'[k].phase = "failed"
         => /\ heap' = heap
            /\ SubSeq(handles', 1, Len(handles)) = handles
            /\ tasks[k].phase \in {"queued", "running"}

C4_FailureVisibility == [](C4_RejectedValue) /\ [][C4_FailStep]_vars

C4_Witness ==
  \E i \in ValueIds : \E k \in TaskIds :
    /\ k <= vals[i].pos
    /\ tasks[k].phase = "failed"
    /\ vals[i].st = "rejected"
    /\ \E j \in TaskIds : j < k /\ tasks[j].phase = "committed"

\* C5: a $value() result is never resolved while a task appended before the
\* call is still pending or in progress.
C5_DrainWaits ==
  \A i \in ValueIds : \A k \in TaskIds :
    vals[i].st = "fulfilled" /\ k <= vals[i].pos
      => tasks[k].phase \notin {"queued", "running"}

C5_Witness ==
  \E i \in ValueIds :
    /\ vals[i].st = "fulfilled"
    /\ vals[i].pos = 2
    /\ vals[i].during # {}
    /\ SomeDelay

\* C6 as stated: when $value() is called while task n runs and task n's
\* middleware appends a write, the result resolves only after that write's
\* task has completed.
C6_Original ==
  \A i \in ValueIds : \A k \in TaskIds :
    vals[i].st = "fulfilled" /\ tasks[k].by \in vals[i].during
      => Finished(k)

\* C6 amended: the result waits for the appended task only when the task was
\* appended before the $value() call; when task n's middleware appends it
\* after the call, the result resolves before the appended task has started.
C6_DrainNotTransitive ==
  \A i \in ValueIds : \A k \in TaskIds :
    vals[i].st = "fulfilled" /\ tasks[k].by \in vals[i].during
      => /\ k <= vals[i].pos => tasks[k].phase = "committed"
         /\ k > vals[i].pos => k \in vals[i].notStarted

C6_Witness ==
  \E i \in ValueIds : \E k \in TaskIds :
    /\ vals[i].st = "fulfilled"
    /\ tasks[k].by \in vals[i].during
    /\ k > vals[i].pos
    /\ tasks[k].phase = "committed"

\* C7: the cancel sentinel is never stored as the value of a field.
C7_SkipNeverStored ==
  \A o \in 1..Len(heap) : \A f \in Fields : heap[o][f] # SKIP

\* C8: the value a queued write to F commits is the output of the
\* field-scoped pass props[F] seeded with the output of the global pass.
C8_TwoStage ==
  \A k \in TaskIds :
    tasks[k].phase = "committed" /\ cfg.props[tasks[k].prop] # <<>>
      => tasks[k].val = RunMiddleware(tasks[k].prop, tasks[k].arg,
                                      Ctx(heap, 1, tasks[k].prop)).v

\* C9: a queued write reaching an entry made by plugin() skips it when the
\* filter excludes the field and invokes its fn when the filter applies; the
\* entry never makes the task fail.
C9_FilterHonoured ==
  \A k \in TaskIds :
    /\ tasks[k].err.kind # "TypeError"
    /\ \A i \in 1..Len(cfg.use) :
         tasks[k].phase = "committed" /\ cfg.use[i].wrapped
           => (shouldRun(cfg.use[i], tasks[k].prop)
                 <=> \E c \in CallsOf(k) : calls[c].idx = i)

\* C10: in the Immediate Builder, an entry that returns SKIP is the last
\* entry invoked for that write: no later entry of its pipeline runs, and
\* after a cancel in the global list no entry of props[F] runs.
C10_CancelStops ==
  \A i \in 1..Len(trace) : trace[i].out = SKIP => i = Len(trace)

\* A global entry cancelled a write to a field that has a field-scoped
\* pipeline, with an applicable global entry registered after it.
C10_Witness ==
  /\ last.op = "write" /\ last.end = "cancelled"
  /\ trace # <<>>
  /\ trace[Len(trace)].out = SKIP
  /\ trace[Len(trace)].list = "use"
  /\ trace[Len(trace)].idx < Len(cfg.use)
  /\ shouldRun(cfg.use[Len(cfg.use)], last.key)
  /\ cfg.props[last.key] # <<>>

\* A step of the Immediate Builder that is a write.
IsSyncWriteStep == nops' = nops + 1 /\ last'.op = "write"

\* The current value after the invocations tr of a write of arg: an entry
\* that returned nothing keeps the value it was given.
Folded(tr, arg) ==
  IF tr = <<>> THEN arg
  ELSE IF tr[Len(tr)].out = Undefined THEN tr[Len(tr)].val
  ELSE tr[Len(tr)].out

\* C11: in the Immediate Builder a cancelled write is a no-op: the record
\* reference and every field are unchanged (in immutable mode too: no copy is
\* installed), the call returns the same handle, and a write made after it
\* whose pipeline neither cancels nor fails is applied.
C11_CancelledStep ==
  /\ (IsSyncWriteStep /\ last'.end = "cancelled")
       => /\ state' = state
          /\ heap' = heap
          /\ last'.ret = "proxy"
  /\ (IsSyncWriteStep /\ last.end = "cancelled" /\ last'.arg \in Args
        /\ \A i \in 1..Len(trace') : ~trace'[i].threw /\ trace'[i].out # SKIP)
       => /\ last'.end = "committed"
          /\ heap'[state'][last'.key] = Folded(trace', last'.arg)

C11_CancelNoOp == [][C11_CancelledStep]_vars

\* A write was cancelled in immutable mode on a record that an earlier
\* committed write had filled.
C11_Witness ==
  /\ cfg.immutable
  /\ last.op = "write" /\ last.end = "cancelled"
  /\ nops >= 2
  /\ \E f \in Fields : heap[state][f] # Undefined
  /\ state = Len(heap)

\* The entries of a list that apply to a field, by position.
Applicable(list, key) == {i \in 1..Len(list) : shouldRun(list[i], key)}

\* C12: an Immediate write of F runs the applicable global entries in
\* registration order and then the applicable entries of props[F] in
\* registration order; the first entry gets the written value, an entry that
\* returns nothing leaves the current value as it is, any other result that is
\* not a cancel (null included) replaces it, the first entry of props[F] gets
\* the value the global pass produced, and the committed value is the final
\* current value.
C12_PipelineFold ==
  (last.op = "write" /\ last.arg \in Args) =>
    /\ \A i \in 1..Len(trace) : trace[i].key = last.key
    /\ \A i, j \in 1..Len(trace) :
         i < j => \/ trace[i].list = "use" /\ trace[j].list = "props"
                  \/ trace[i].list = trace[j].list /\ trace[i].idx < trace[j].idx
    /\ trace # <<>> => trace[1].val = last.arg
    /\ \A i \in 1..(Len(trace) - 1) : trace[i + 1].val = Folded(SubSeq(trace, 1, i), last.arg)
    /\ last.end = "committed" =>
         /\ \A i \in Applicable(cfg.use, last.key) :
              \E n \in 1..Len(trace) : trace[n].list = "use" /\ trace[n].idx = i
         /\ \A i \in Applicable(cfg.props[last.key], last.key) :
              \E n \in 1..Len(trace) : trace[n].list = "props" /\ trace[n].idx = i
         /\ heap[state][last.key] = Folded(trace, last.arg)

\* A committed write whose global pass kept the value in one entry and
\* replaced it in another, and whose field-scoped entry was given the value
\* the global pass produced and replaced it again.
C12_Witness ==
  /\ last.op = "write" /\ last.end = "committed" /\ last.arg \in Args
  /\ \E i, j, n \in 1..Len(trace) :
       /\ trace[i].list = "use" /\ trace[i].out = Undefined
       /\ trace[j].list = "use" /\ trace[j].out \notin {Undefined, trace[j].val}
       /\ trace[n].list = "props" /\ trace[n].val = trace[j].out
       /\ trace[n].val # last.arg
       /\ heap[state][last.key] = trace[n].out
       /\ trace[n].out # trace[n].val

\* C13: an entry with an only set that lacks F does not apply to F; an entry
\* whose except set contains F does not apply to F, also when its only set
\* contains F; otherwise the entry applies; a plain function, having neither
\* set, applies to every field.  Checked on the one entry of the global list:
\* the entry applies to a write exactly when the write invoked it.
C13_FilterRule ==
  (last.op = "write" /\ last.arg \in Args) =>
    LET item == cfg.use[1]
        F == last.key
        ran == \E n \in 1..Len(trace) : trace[n].list = "use" /\ trace[n].idx = 1
    IN /\ (item.hasOnly /\ F \notin item.only) => ~ran
       /\ (item.hasExcept /\ F \in item.except) => ~ran
       /\ (~(item.hasOnly /\ F \notin item.only) /\ ~(item.hasExcept /\ F \in item.except))
            => ran
       /\ (~item.hasOnly /\ ~item.hasExcept) => ran

\* A write to a field that is in both the only set and the except set of the
\* entry committed without invoking it.
C13_Witness ==
  /\ last.op = "write" /\ last.end = "committed" /\ last.arg \in Args
  /\ Len(cfg.use) = 1
  /\ cfg.use[1].hasOnly /\ last.key \in cfg.use[1].only
  /\ cfg.use[1].hasExcept /\ last.key \in cfg.use[1].except
  /\ trace = <<>>
  /\ heap[state][last.key] = last.arg

\* A step of the Immediate Builder that is a read.
IsSyncReadStep == nops' = nops + 1 /\ last'.op = "read"

\* C14: with immutable false, a committed write of F keeps the record the
\* same object, sets F to the value the middleware produced and leaves every
\* other field as it was; a read of F made right after it returns exactly
\* that value.
C14_MutableStep ==
  ~cfg.immutable =>
    /\ (IsSyncWriteStep /\ last'.end = "committed")
         => /\ state' = state
            /\ Len(heap') = Len(heap)
            /\ heap'[state'][last'.key] = Folded(trace', last'.arg)
            /\ \A g \in Fields \ {last'.key} : heap'[state'][g] = heap[state][g]
    /\ (IsSyncReadStep /\ last.op = "write" /\ last.end = "committed"
          /\ last'.key = last.key)
         => last'.arg = Folded(trace, last.arg)

C14_MutableWrite == [][C14_MutableStep]_vars

\* With immutable false and middleware that changed the value, two fields were
\* written on the one record and the last was read back.
C14_Witness ==
  /\ ~cfg.immutable
  /\ cfg.use # <<>>
  /\ last.op = "read" /\ last.arg \notin {Undefined, PromiseValue}
  /\ nops = 3
  /\ state = 1 /\ Len(heap) = 1
  /\ \A f \in Fields : heap[1][f] # Undefined
  /\ \E f \in Fields : heap[1][f] \notin Args

\* C15: with immutable true, a committed write of F installs a record object
\* that is not the previous one (nor any object that existed), with F set and
\* every other field copied unchanged; no object that existed before a write,
\* the initial target and every earlier record included, is modified by it.
C15_ImmutableStep ==
  (cfg.immutable /\ IsSyncWriteStep) =>
    /\ \A o \in 1..Len(heap) : heap'[o] = heap[o]
    /\ last'.end = "committed"
         => /\ state' # state
            /\ state' \notin 1..Len(heap)
            /\ heap'[state'][last'.key] = Folded(trace', last'.arg)
            /\ \A g \in Fields \ {last'.key} : heap'[state'][g] = heap[state][g]

EntryOf(e) == IF e.list = "use" THEN cfg.use[e.idx] ELSE cfg.props[e.key][e.idx]

\* An invoked entry raised a fault exactly when its function does so for the
\* value it was given; the entry that did is the last one invoked, and the
\* call ended with the fault and returned nothing.
C16_FaultEndsCall ==
  last.op = "write" =>
    /\ \A i \in 1..Len(trace) :
         /\ trace[i].threw <=>
              (~EntryOf(trace[i]).delay
                 /\ Outcome(EntryOf(trace[i]).fn, trace[i].key, trace[i].val).t = "throw")
         /\ trace[i].threw => i = Len(trace) /\ last.end = "throw" /\ last.ret = "none"
    /\ last.end = "throw" => trace # <<>> /\ trace[Len(trace)].threw

\* A write that ended with a fault changed no object and left the record
\* reference as it was.
C16_FaultStep ==
  (IsSyncWriteStep /\ last'.end = "throw") => heap' = heap /\ state' = state

\* C16: in the Immediate Builder, when a middleware entry raises a fault
\* during a write, the call itself fails with that fault, no later entry is
\* invoked, and the record is left exactly as it was before the call.
C16_MiddlewareFailure == [](C16_FaultEndsCall) /\ [][C16_FaultStep]_vars

\* A global entry raised a fault on a record an earlier write had filled,
\* with an applicable global entry after it and a field-scoped pipeline.
C16_Witness ==
  /\ last.op = "write" /\ last.end = "throw"
  /\ trace[Len(trace)].list = "use"
  /\ trace[Len(trace)].idx < Len(cfg.use)
  /\ shouldRun(cfg.use[Len(cfg.use)], last.key)
  /\ cfg.props[last.key] # <<>>
  /\ heap[state][last.key] \notin {Undefined, last.arg}

\* C17: in the Immediate Builder a write whose middleware returned a promise
\* is rejected as an error, and the promise is never committed as the value
\* of a field.
C17_DeferredRejected ==
  /\ (last.op = "write" /\ \E i \in 1..Len(trace) : trace[i].out = PromiseValue)
       => last.end = "throw"
  /\ \A o \in 1..Len(heap) : \A f \in Fields : heap[o][f] # PromiseValue

\* C18: in the Immediate Builder, with immutable false as with immutable
\* true, a write of F whose value is a callback wrapped by _() does not fail,
\* returns the handle, and leaves in F the record of the child builder,
\* never the marker function.
C18_NestedWrite ==
  (last.op = "write" /\ last.arg = BuilderCallback) =>
    /\ last.end # "ReferenceError"
    /\ last.ret = "proxy"
    /\ last.end = "committed" => heap[state][last.key] \notin {BuilderCallback, Undefined}

\* C19 as stated: a queued write of a callback wrapped by _() commits the
\* drained record of a child builder, so no field of any record ever holds
\* the marker function.
C19_Original ==
  \A o \in 1..Len(heap) : \A f \in Fields : heap[o][f] # BuilderCallback

\* C19: a queued write of F whose value is a callback wrapped by _() is
\* handled as a write of any other value: no child builder is made (every
\* handle is the first one or the one a write returned), the marker function
\* itself is what the global middleware is given, and with middleware that
\* return nothing the task commits F equal to the marker function.
C19_MarkerStored ==
  /\ Len(handles) = 1 + Len(tasks)
  /\ \A k \in TaskIds :
       tasks[k].arg = BuilderCallback =>
         /\ \A c \in CallsOf(k) : calls[c].val = BuilderCallback
         /\ tasks[k].phase = "committed" =>
              /\ tasks[k].val = BuilderCallback
              /\ cfg.immutable => \E o \in 1..Len(heap) : heap[o][tasks[k].prop] = BuilderCallback
              /\ (~cfg.immutable
                    /\ \A j \in TaskIds : (j > k /\ tasks[j].prop = tasks[k].prop)
                                            => tasks[j].phase \notin {"committed"})
                   => heap[1][tasks[k].prop] = BuilderCallback

\* A write of a wrapped callback went through a suspending middleware and
\* committed, and a $value() called after it resolved to a record whose field
\* holds the marker function.
C19_Witness ==
  \E k \in TaskIds : \E i \in ValueIds :
    /\ tasks[k].arg = BuilderCallback
    /\ tasks[k].phase = "committed"
    /\ CallsOf(k) # {}
    /\ vals[i].pos >= k
    /\ vals[i].st = "fulfilled"
    /\ vals[i].snap[tasks[k].prop] = BuilderCallback

\* A step of the Immediate Builder that is a call of pipe.
IsSyncPipeStep == nops' = nops + 1 /\ last'.op = "pipe"

\* C20: pipe(fn) replaces the whole record by what fn returned for the
\* current record, invokes no middleware and returns the same handle; with
\* immutable false the new record is the very object fn returned, with
\* immutable true it is a fresh copy of it, so that the object fn returned is
\* not the live record.
C20_PipeStep ==
  IsSyncPipeStep =>
    /\ trace' = <<>>
    /\ last'.ret = "proxy"
    /\ last'.fnres \in 1..Len(heap')
    /\ heap'[last'.fnres] \in {heap[state], [heap[state] EXCEPT !["b"] = 1]}
    /\ heap'[state'] = heap'[last'.fnres]
    /\ \A o \in 1..Len(heap) : heap'[o] = heap[o]
    /\ ~cfg.immutable => state' = last'.fnres
    /\ cfg.immutable => /\ state' # last'.fnres
                        /\ state' \notin 1..Len(heap)
                        /\ state' = Len(heap')

IsSyncTapStep == nops' = nops + 1 /\ last'.op = "tap"

\* C21: tap(fn) invokes fn exactly once, with the current record, keeps the
\* record reference, writes no field and creates no object, invokes no
\* middleware, and returns the same handle.
C21_TapStep ==
  IsSyncTapStep =>
    /\ Len(trace') = 1
    /\ trace'[1].list = "tap"
    /\ trace'[1].val = state
    /\ state' = state
    /\ heap' = heap
    /\ last'.ret = "proxy"

C21_Tap == [][C21_TapStep]_vars

\* With immutable true, tap was called on a record that a committed write had
\* installed, with middleware configured.
C21_Witness ==
  /\ cfg.immutable
  /\ cfg.use # <<>>
  /\ last.op = "tap"
  /\ state > 1
  /\ trace[1].val = state
  /\ \E f \in Fields : heap[state][f] # Undefined

\* C22: tap(fn) and pipe(fn) on a Queued handle are never treated as a
\* write: no record has a field named tap or pipe holding the function
\* passed in.
C22_HelpersNotWrites ==
  \A o \in 1..Len(heap) : \A name \in HelperNames : heap[o][name] # FunctionArg

\* A middleware entry answered the write of task k with the cancel sentinel.
Cancelled(k) ==
  \E c \in CallsOf(k) :
    Outcome(cfg.use[calls[c].idx].fn, calls[c].key, calls[c].val).v = SKIP

\* Task k committed a value other than the cancel sentinel.
Accepted(k) == tasks[k].phase = "committed" /\ tasks[k].val # SKIP

\* C23: when a queued write of F was cancelled by middleware and a later
\* write of F was accepted, a $value() called after both (with no write of F
\* between the accepted one and the call) resolves to a record in which F is
\* the value the accepted write committed, and in which no other field has a
\* value unless a write of that field was made.
C23_CancelThenAccept ==
  \A i \in ValueIds : \A k, j \in TaskIds :
    ( /\ vals[i].st = "fulfilled"
      /\ k < j /\ j <= vals[i].pos
      /\ tasks[k].prop = tasks[j].prop
      /\ Cancelled(k) /\ Accepted(j)
      /\ \A n \in TaskIds : (j < n /\ n <= vals[i].pos) => tasks[n].prop # tasks[j].prop )
    => /\ vals[i].snap[tasks[j].prop] = tasks[j].val
       /\ \A g \in Fields :
            (\A n \in TaskIds : n <= vals[i].pos => tasks[n].prop # g)
              => vals[i].snap[g] = Undefined

\* C24: when a queued write returns, the task it appended has not started:
\* none of its middleware has been invoked and no object has been modified;
\* its middleware and its commit happen in later steps.
C24_ReturnStep ==
  \A k \in (Len(tasks) + 1)..Len(tasks') :
    /\ tasks'[k].phase = "queued"
    /\ tasks'[k].mi = 0
    /\ \A c \in 1..Len(calls') : calls'[c].task # k
    /\ heap' = heap

C24_WriteReturnsFirst == [][C24_ReturnStep]_vars

\* A write by the caller has returned on a builder with middleware: its task
\* waits in the microtask queue, no middleware has run and the record is as
\* it was.
C24_Witness ==
  \E k \in TaskIds :
    /\ tasks[k].by = 0
    /\ tasks[k].phase = "queued"
    /\ cfg.use # <<>>
    /\ CallsOf(k) = {}
    /\ \E n \in 1..Len(micro) : micro[n] = Job("task", k)
    /\ heap = <<EmptyRecord>>

\* C25: a read of F made on a handle in the same turn as a write of F, before
\* the task of the write has run, returns the value F had on the handle
\* before the write, which is not the written value unless F already had it.
C25_ReadStep ==
  (Len(tasks') = Len(tasks) + 1 /\ last'.op = "read") =>
    LET t == tasks'[Len(tasks')]
        before == heap[handles[t.handle]][t.prop]
    IN /\ t.phase = "queued"
       /\ last'.key = t.prop
       /\ last'.arg = before
       /\ before # t.arg => last'.arg # t.arg

C25_ReadHazard == [][C25_ReadStep]_vars

\* A first write of a field has committed 1; a second write of 2 to that
\* field was followed at once by a read, which returned 1.
C25_Witness ==
  /\ Len(tasks) = 2
  /\ tasks[1].phase = "committed" /\ tasks[1].val = 1
  /\ tasks[2].phase = "queued" /\ tasks[2].prop = tasks[1].prop /\ tasks[2].arg = 2
  /\ last.op = "read" /\ last.key = tasks[2].prop
  /\ last.arg = 1

\* The middleware of some task raised a fault.
Faulted == \E j \in TaskIds : tasks[j].phase = "failed"

\* Every appended task has committed and its promise is fulfilled, and every
\* $value() call has resolved.
AllDone ==
  /\ \A k \in TaskIds : tasks[k].phase = "committed" /\ tasks[k].st = "fulfilled"
  /\ \A i \in ValueIds : vals[i].st = "fulfilled"

\* C26: when every middleware invocation settles (every timer fires) and
\* none raises a fault, every appended task runs to completion and every
\* $value() call resolves: whatever has been appended, a state follows in
\* which all of it is done (a task that has committed stays so).
C26_Liveness == []<>(Faulted \/ AllDone)

\* Two writes went through a suspending middleware and committed, and a
\* $value() called after them resolved.
C26_Witness ==
  /\ SomeDelay
  /\ ~Faulted
  /\ Len(tasks) = 2 /\ Len(vals) = 1
  /\ \A k \in TaskIds : tasks[k].phase = "committed" /\ CallsOf(k) # {}
  /\ vals[1].pos = 2 /\ vals[1].st = "fulfilled"

\* The builder right after construction.
World0 ==
  [heap |-> <<EmptyRecord>>, handles |-> <<1>>, tasks |-> <<>>, vals |-> <<>>,
   micro |-> <<>>, timers |-> {}, calls |-> <<>>]

\* The calls the caller has made so far, made again in the same order on a
\* new builder with nothing running in between: $value() call v was made when
\* vals[v].pos writes had been made.
RECURSIVE Issue(_, _)
Issue(w, v) ==
  IF v <= Len(vals) /\ vals[v].pos = Len(w.tasks)
  THEN Issue(Value(w, vals[v].handle), v + 1)
  ELSE IF Len(w.tasks) < Len(tasks)
  THEN LET t == tasks[Len(w.tasks) + 1]
       IN Issue(Setter(w, t.handle, t.prop, t.arg, 0), v)
  ELSE w

\* The event loop run until nothing is left to do.
RECURSIVE Drain(_)
Drain(w) ==
  IF w.micro # <<>> THEN Drain(RunJob([w EXCEPT !.micro = Tail(@)], Head(w.micro)))
  ELSE IF w.timers # {}
  THEN LET k == CHOOSE k \in w.timers : TRUE
       IN Drain([w EXCEPT !.timers = @ \ {k}, !.micro = <<Job("resume", k)>>])
  ELSE w

\* The run in which the caller makes all its calls before any task starts.
Reference == Drain(Issue(World0, 1))

\* No middleware of the configuration writes to the builder itself.
NoSelfWrites == \A i \in 1..Len(cfg.use) : cfg.use[i].fn # "appender"

\* C27: with suspending middleware that does not write to the builder, for a
\* fixed configuration and sequence of calls, the record a
\* $value() call resolves to does not depend on how long the middleware of
\* each task stays suspended, that is on how far the chain has run when the
\* caller makes each call: it is the record the same $value() call resolves
\* to in the run where the caller makes all its calls before any task starts.
C27_Deterministic ==
  (SomeDelay /\ NoSelfWrites) =>
    \A i \in ValueIds :
      vals[i].st = "fulfilled"
        => /\ Reference.vals[i].st = "fulfilled"
           /\ Reference.vals[i].snap = vals[i].snap

\* C28: in mutable and in immutable mode, every call on the Immediate handle
\* that continues the chain (a committed write, a cancelled write, tap, pipe)
\* returns the one handle, and a read returns the field of the record that
\* was installed last: after a committed write of the field the value that
\* write committed, after pipe the field of the record pipe installed.
C28_HandleStep ==
  nops' = nops + 1 =>
    /\ ( \/ last'.op \in {"tap", "pipe"}
         \/ (last'.op = "write" /\ last'.end \in {"committed", "cancelled"}) )
         => last'.ret = "proxy"
    /\ last'.op = "read" =>
         /\ last'.arg = heap[state][last'.key]
         /\ (last.op = "write" /\ last.end = "committed" /\ last.key = last'.key)
              => last'.arg = Folded(trace, last.arg)
         /\ last.op = "pipe" => last'.arg = heap[last.fnres][last'.key]

C28_SingleHandle == [][C28_HandleStep]_vars

\* With immutable true, two records were installed one after the other and a
\* read on the handle returned a field of the last one that the initial
\* target does not have.
C28_Witness ==
  /\ cfg.immutable
  /\ last.op = "read"
  /\ state >= 3 /\ state = Len(heap)
  /\ last.arg = heap[state][last.key]
  /\ last.arg # Undefined
  /\ heap[1][last.key] = Undefined

\* C29: every middleware entry invoked for an Immediate write of F, global
\* or field-scoped, gets the same context: its key is F, its obj is the
\* record that was live before the call and shows that record as it was
\* then (the value being written is not in it), and its root is the initial
\* target of the builder.
C29_ContextStep ==
  IsSyncWriteStep =>
    \A i \in 1..Len(trace') :
      /\ trace'[i].ctx = trace'[1].ctx
      /\ trace'[i].ctx.key = last'.key
      /\ trace'[i].ctx.obj = state
      /\ trace'[i].ctx.rec = heap[state]
      /\ trace'[i].ctx.root = 1

C29_Context == [][C29_ContextStep]_vars

\* A committed write, on a record an earlier write or pipe had installed in
\* place of the initial target, invoked a global and a field-scoped entry and
\* stored a value the record did not hold before.
C29_Witness ==
  /\ last.op = "write" /\ last.end = "committed"
  /\ \E i, j \in 1..Len(trace) : trace[i].list = "use" /\ trace[j].list = "props"
  /\ trace[1].ctx.obj # trace[1].ctx.root
  /\ trace[1].ctx.rec[last.key] # heap[state][last.key]

\* After the middleware of task n raised a fault, every task after it is
\* bypassed with that fault and every $value() call made after task n was
\* appended is rejected with it.
C30_SameFault ==
  \A n \in TaskIds :
    tasks[n].phase = "failed" =>
      /\ tasks[n].err.by = n
      /\ \A j \in TaskIds :
           j > n => /\ tasks[j].phase \in {"queued", "skipped"}
                    /\ CallsOf(j) = {}
                    /\ tasks[j].st # "fulfilled"
                    /\ tasks[j].st = "rejected" => tasks[j].err = tasks[n].err
      /\ \A i \in ValueIds :
           vals[i].pos >= n => /\ vals[i].st # "fulfilled"
                               /\ vals[i].st = "rejected" => vals[i].err = tasks[n].err

\* Once a fault was raised the chain stays failed: no step after it invokes
\* a middleware, changes an object or rebinds a handle.
C30_FrozenStep ==
  Faulted => /\ Faulted'
             /\ heap' = heap
             /\ calls' = calls
             /\ SubSeq(handles', 1, Len(handles)) = handles

\* C30: once the middleware of one task has raised a fault, the task chain
\* stays failed for good: no write appended afterwards ever invokes its
\* middleware or commits, and every later $value() call fails with that same
\* original fault.
C30_FailurePermanent == [](C30_SameFault) /\ [][C30_FrozenStep]_vars

\* Task 1 failed and a $value() call made then was rejected; a write appended
\* after that call was bypassed and rejected with the fault of task 1.
C30_Witness ==
  /\ Len(tasks) = 2 /\ Len(vals) = 1
  /\ tasks[1].phase = "failed"
  /\ vals[1].pos = 1 /\ vals[1].st = "rejected"
  /\ tasks[2].parent = 1
  /\ tasks[2].phase = "skipped" /\ tasks[2].st = "rejected"
  /\ tasks[2].err = tasks[1].err

\* C31: in mutable mode of the Queued Builder every handle the builder ever
\* returned is bound to the initial target (object 1), no other record object
\* exists, the field of the target holds the value of the last committed task
\* writing it, and every fulfilled $value() promise resolved to the target.
C31_SharedRecord ==
  ~cfg.immutable =>
    /\ Len(heap) = 1
    /\ \A h \in 1..Len(handles) : handles[h] = 1
    /\ \A k \in TaskIds :
         (/\ tasks[k].phase = "committed"
          /\ \A j \in TaskIds :
               (j > k /\ tasks[j].prop = tasks[k].prop) => tasks[j].phase # "committed")
         => heap[1][tasks[k].prop] = tasks[k].val
    /\ \A i \in ValueIds : vals[i].st = "fulfilled" => vals[i].res = 1

\* Two writes on different handles, the second on the handle the first one
\* returned, are committed and a $value() on a returned handle has resolved.
C31_Witness ==
  /\ ~cfg.immutable
  /\ \E j, k \in TaskIds :
       /\ j < k
       /\ tasks[j].handle = 1 /\ tasks[k].handle = tasks[j].ret
       /\ tasks[j].phase = "committed" /\ tasks[k].phase = "committed"
  /\ \E i \in ValueIds : vals[i].handle # 1 /\ vals[i].st = "fulfilled" /\ vals[i].res = 1

\* The writes made before the $value() call v were all issued by the caller on
\* the builder's first handle, and so was the call: ch.a(1); ch.b(2); ch.$value()
IsOneHandle(v) ==
  /\ v.pos >= 1
  /\ v.handle = 1
  /\ \A k \in 1..v.pos : tasks[k].by = 0 /\ tasks[k].handle = 1

\* C32: in immutable mode of the Queued Builder, when the k writes made before
\* a $value() call were all issued on one handle and the call is made on that
\* handle, the promise resolves to a record holding, for every field, the value
\* committed by the last of those writes to it; the initial target is never
\* modified.
C32_OneHandleImmutable ==
  cfg.immutable =>
    /\ heap[1] = EmptyRecord
    /\ \A i \in ValueIds :
         vals[i].st = "fulfilled" /\ IsOneHandle(vals[i])
           => \A f \in Fields : vals[i].snap[f] = LastWrite(f, vals[i].pos)

\* Two writes to different fields on the first handle, then $value() on it,
\* resolved to a record holding both that is not the initial target.
C32_Witness ==
  /\ cfg.immutable
  /\ \E i \in ValueIds :
       /\ vals[i].st = "fulfilled" /\ IsOneHandle(vals[i])
       /\ vals[i].pos = 2 /\ tasks[1].prop # tasks[2].prop
       /\ vals[i].res # 1
       /\ \A f \in Fields : vals[i].snap[f] \in Args

\* No field of any record object holds the cancel sentinel.
C33_NoSentinel ==
  \A o \in 1..Len(heap) : \A f \in Fields : heap[o][f] # SKIP

\* A write called with SKIP itself whose pipelines are empty or made of
\* entries that return nothing (or the value they were given) ends cancelled
\* and leaves the record as it was.
C33_SentinelStep ==
  (/\ IsSyncWriteStep
   /\ last'.arg = SKIP
   /\ \A i \in 1..Len(trace') : ~trace'[i].threw /\ trace'[i].out \in {Undefined, SKIP})
  => /\ last'.end = "cancelled"
     /\ state' = state
     /\ heap' = heap

\* C33: the Immediate Builder never stores the cancel sentinel: no write sets
\* a field to SKIP, and a write called with SKIP itself, with empty or
\* pass-through pipelines, is cancelled and leaves the record unchanged.
C33_SentinelNeverStored == [](C33_NoSentinel) /\ [][C33_SentinelStep]_vars

\* A write called with SKIP, whose pipeline ran entries that all returned
\* nothing, was cancelled on a record an earlier write had filled.
C33_Witness ==
  /\ last.op = "write" /\ last.arg = SKIP /\ last.end = "cancelled"
  /\ nops >= 2
  /\ heap[state][last.key] \in Args
  /\ trace # <<>>
  /\ \A i \in 1..Len(trace) : trace[i].out = Undefined

\* C34: with the same options (plain global functions that never cancel and
\* never fail, no props, no filters, immutable false) and the same writes made
\* on both engines, a $value() of the Queued Builder called after the last
\* write resolves to a record with the fields of the Immediate Builder's
\* final record, also when an entry returns null.
C34_EngineEquivalence ==
  \A i \in ValueIds :
    vals[i].st = "fulfilled" /\ vals[i].pos = nops /\ nops >= 1
      => \A f \in Fields : vals[i].snap[f] = heap[state][f]

\* The object fixed at construction: the supplied rootRef, else the initial
\* target (object 1).
C35_FixedRoot == IF cfg.rootRef \in {Undefined, Null} THEN 1 ELSE cfg.rootRef

\* What $root returned, and the root field of every context handed to a
\* middleware of either engine, is the fixed object; when writes go to copies
\* or the root is not the target, the root shows no write; in immutable mode
\* the handle of a committed queued write is bound to another object.
C35_RootState ==
  /\ last.op = "root" => last.arg = C35_FixedRoot
  /\ \A i \in 1..Len(trace) : trace[i].ctx.root = C35_FixedRoot
  /\ \A c \in 1..Len(calls) : calls[c].ctx.root = C35_FixedRoot
  /\ (cfg.immutable \/ C35_FixedRoot # 1) => heap[C35_FixedRoot] = EmptyRecord
  /\ cfg.immutable =>
       \A k \in TaskIds :
         tasks[k].phase = "committed" => handles[tasks[k].handle] # C35_FixedRoot

\* After a committed write in immutable mode, and after a pipe in immutable
\* mode or one whose function returned a new object, the current record of
\* the Immediate Builder is not the root; once it is not, it stays so.
C35_RootStep ==
  /\ (IsSyncWriteStep /\ last'.end = "committed" /\ cfg.immutable) => state' # C35_FixedRoot
  /\ (IsSyncPipeStep /\ (cfg.immutable \/ last'.fnres # state)) => state' # C35_FixedRoot
  /\ state # C35_FixedRoot => state' # C35_FixedRoot

\* C35: for both engines $root and the root field of every middleware
\* context denote the object fixed at construction (rootRef, else the initial
\* target) whatever writes or pipe calls follow; in immutable mode, and after
\* a pipe that returns a new object, the root shows no committed write and is
\* not the current record.
C35_RootFixed == [](C35_RootState) /\ [][C35_RootStep]_vars

\* $root was read on the Immediate Builder, built with no rootRef in
\* immutable mode, after a committed write had replaced the record.
C35_Witness ==
  /\ cfg.builder = "chainit" /\ cfg.immutable /\ cfg.rootRef = Undefined
  /\ last.op = "root" /\ last.arg = 1
  /\ state # 1
  /\ \E f \in Fields : heap[state][f] \in 1..4

====
